---- MODULE Spec2Model ----
(***************************************************************************)
(* Model of the embed generator: the validators and helpers of             *)
(* lib/sanitize.ts, the two /embed route handlers and the form's           *)
(* validateForm.  A JavaScript string is a sequence of one-character       *)
(* strings (UTF-16 code units); null and undefined are the one-element     *)
(* sequences Null and Undefined, which no string of characters equals.     *)
(***************************************************************************)
EXTENDS Integers, Sequences, FiniteSets, TLC

VARIABLES limits, raw, errors, formResult, resp, shareableLink, clipboard, copiedLink

vars == <<limits, raw, errors, formResult, resp, shareableLink, clipboard, copiedLink>>

----------------------------------------------------------------------------
(* JavaScript values and string primitives *)

Null == <<"null">>

Undefined == <<"undefined">>

\* the code unit U+0060 (grave accent), which cannot be written inside a string here
Backtick == "U+0060"

WhiteSpace == {" ", "\n", "\t"}

Min(a, b) == IF a < b THEN a ELSE b

Max(a, b) == IF a > b THEN a ELSE b

Rep(c, n) == [i \in 1..n |-> c]

\* !v for a string, null or undefined
Falsy(v) == v = Null \/ v = Undefined \/ v = <<>>

\* v || d
OrElse(v, d) == IF Falsy(v) THEN d ELSE v

\* s.slice(0, n) for n >= 0
slice(s, n) == SubSeq(s, 1, Min(n, Len(s)))

\* index of the first element of s that is in set, or Len(s) + 1
FirstIn(s, set) ==
    LET hits == {i \in 1..Len(s) : s[i] \in set}
    IN  IF hits = {} THEN Len(s) + 1 ELSE CHOOSE i \in hits : \A j \in hits : i <= j

\* index of the first element of s that is not in set, or Len(s) + 1
FirstNotIn(s, set) ==
    LET hits == {i \in 1..Len(s) : s[i] \notin set}
    IN  IF hits = {} THEN Len(s) + 1 ELSE CHOOSE i \in hits : \A j \in hits : i <= j

\* the length of s without its trailing white space, s being n long
RECURSIVE trimEndLen(_, _)
trimEndLen(s, n) ==
    IF n = 0 \/ s[n] \notin WhiteSpace THEN n ELSE trimEndLen(s, n - 1)

trimEnd(s) == SubSeq(s, 1, trimEndLen(s, Len(s)))

trimStart(s) == SubSeq(s, FirstNotIn(s, WhiteSpace), Len(s))

trim(s) == trimEnd(trimStart(s))

endsWith(s, suffix) ==
    /\ Len(suffix) <= Len(s)
    /\ SubSeq(s, Len(s) - Len(suffix) + 1, Len(s)) = suffix

Upper ==
    [A |-> "a", B |-> "b", C |-> "c", D |-> "d", E |-> "e", F |-> "f", G |-> "g",
     H |-> "h", I |-> "i", J |-> "j", K |-> "k", L |-> "l", M |-> "m", N |-> "n",
     O |-> "o", P |-> "p", Q |-> "q", R |-> "r", S |-> "s", T |-> "t", U |-> "u",
     V |-> "v", W |-> "w", X |-> "x", Y |-> "y", Z |-> "z"]

toLowerCase(s) == [i \in 1..Len(s) |-> IF s[i] \in DOMAIN Upper THEN Upper[s[i]] ELSE s[i]]

Lower ==
    {"a", "b", "c", "d", "e", "f", "g", "h", "i", "j", "k", "l", "m",
     "n", "o", "p", "q", "r", "s", "t", "u", "v", "w", "x", "y", "z"}

Alpha == Lower \cup DOMAIN Upper

Digit == {"0", "1", "2", "3", "4", "5", "6", "7", "8", "9"}

\* the concatenation of f(s[lo]), ..., f(s[hi]), where f(c) = <<c>> for every c
\* in same: a range of such characters is copied whole, any other is halved
RECURSIVE FlatMap(_, _, _, _, _)
FlatMap(f(_), same, s, lo, hi) ==
    IF lo > hi THEN <<>>
    ELSE IF \A i \in lo..hi : s[i] \in same THEN SubSeq(s, lo, hi)
    ELSE IF lo = hi THEN f(s[lo])
    ELSE LET mid == (lo + hi) \div 2
         IN  FlatMap(f, same, s, lo, mid) \o FlatMap(f, same, s, mid + 1, hi)

----------------------------------------------------------------------------
(* lib/sanitize.ts *)

LIMITS == [title |-> 200, description |-> 1000, footer |-> 200]

\* variant: the "&" of an entity is escaped once more
heEscapeChar_DoubleEscape(c) ==
    CASE c = "&"  -> <<"&", "a", "m", "p", ";">>
      [] c = "<"  -> <<"&", "a", "m", "p", ";", "l", "t", ";">>
      [] c = ">"  -> <<"&", "a", "m", "p", ";", "g", "t", ";">>
      [] c = "\"" -> <<"&", "q", "u", "o", "t", ";">>
      [] c = "'"  -> <<"&", "#", "x", "2", "7", ";">>
      [] c = Backtick -> <<"&", "#", "x", "6", "0", ";">>
      [] OTHER    -> <<c>>

\* variant: ">" is left as it is
heEscapeChar_NoGt(c) ==
    CASE c = "&"  -> <<"&", "a", "m", "p", ";">>
      [] c = "<"  -> <<"&", "l", "t", ";">>
      [] c = "\"" -> <<"&", "q", "u", "o", "t", ";">>
      [] c = "'"  -> <<"&", "#", "x", "2", "7", ";">>
      [] c = Backtick -> <<"&", "#", "x", "6", "0", ";">>
      [] OTHER    -> <<c>>

\* he.escape: & < > " ' and the grave accent become named or hexadecimal entities
heEscapeChar(c) ==
    CASE c = "&"  -> <<"&", "a", "m", "p", ";">>
      [] c = "<"  -> <<"&", "l", "t", ";">>
      [] c = ">"  -> <<"&", "g", "t", ";">>
      [] c = "\"" -> <<"&", "q", "u", "o", "t", ";">>
      [] c = "'"  -> <<"&", "#", "x", "2", "7", ";">>
      [] c = Backtick -> <<"&", "#", "x", "6", "0", ";">>
      [] OTHER    -> <<c>>

escapeHtml(text) ==
    FlatMap(heEscapeChar, Alpha \cup Digit \cup WhiteSpace \cup {"*", ".", "/", ":"}, text, 1, Len(text))

Valid == [valid |-> TRUE]

Invalid(msg) == [valid |-> FALSE, error |-> msg]

\* variant: the title is not trimmed before the empty check
validateTitle_NoTrim(L, title) ==
    IF Falsy(title)
    THEN Invalid(<<"Title is required">>)
    ELSE IF Len(title) > L.title
    THEN Invalid(<<"Title must be", L.title, "characters or less">>)
    ELSE Valid

validateTitle(L, title) ==
    IF Falsy(title) \/ Len(trim(title)) = 0
    THEN Invalid(<<"Title is required">>)
    ELSE IF Len(title) > L.title
    THEN Invalid(<<"Title must be", L.title, "characters or less">>)
    ELSE Valid

\* variant: a description of exactly the limit is too long
validateDescription_OffByOne(L, desc) ==
    IF Falsy(desc) \/ Len(trim(desc)) = 0
    THEN Invalid(<<"Description is required">>)
    ELSE IF Len(desc) >= L.description
    THEN Invalid(<<"Description must be", L.description, "characters or less">>)
    ELSE Valid

validateDescription(L, desc) ==
    IF Falsy(desc) \/ Len(trim(desc)) = 0
    THEN Invalid(<<"Description is required">>)
    ELSE IF Len(desc) > L.description
    THEN Invalid(<<"Description must be", L.description, "characters or less">>)
    ELSE Valid

\* variant: the footer is required like the title
validateFooter_Required(L, footer) ==
    IF Falsy(footer) \/ Len(trim(footer)) = 0
    THEN Invalid(<<"Footer is required">>)
    ELSE IF Len(footer) > L.footer
    THEN Invalid(<<"Footer must be", L.footer, "characters or less">>)
    ELSE Valid

validateFooter(L, footer) ==
    IF ~Falsy(footer) /\ Len(footer) > L.footer
    THEN Invalid(<<"Footer must be", L.footer, "characters or less">>)
    ELSE Valid

includes(s, sub) ==
    \E i \in 0..(Len(s) - Len(sub)) : SubSeq(s, i + 1, i + Len(sub)) = sub

RECURSIVE DecimalValue(_, _)
DecimalValue(s, n) ==
    IF n = 0 THEN 0
    ELSE 10 * DecimalValue(s, n - 1)
         + (CHOOSE d \in 0..9 : <<"0", "1", "2", "3", "4", "5", "6", "7", "8", "9">>[d + 1] = s[n])

(* new URL(input) without a base, as the WHATWG URL parser does it for input
   over letters, digits, white space and ASCII punctuation without "@", "[",
   "]" and "%" and with no all-numeric host label: ok = FALSE is the
   TypeError the constructor throws. *)
SpecialSchemes ==
    {<<"h", "t", "t", "p">>, <<"h", "t", "t", "p", "s">>, <<"f", "t", "p">>,
     <<"w", "s">>, <<"w", "s", "s">>}

ForbiddenHostCodePoint == {" ", "#", "/", ":", "<", ">", "?", "\\", "^", "|"}

NotTabOrNewline(c) == c \notin {"\n", "\t"}

URLFailure == [ok |-> FALSE]

URLRecord(scheme, host) ==
    [ok |-> TRUE, protocol |-> scheme \o <<":">>, hostname |-> toLowerCase(host)]

\* host state and port state
parseHostPort(scheme, special, host, port) ==
    IF \/ special /\ host = <<>>
       \/ \E i \in 1..Len(host) : host[i] \in ForbiddenHostCodePoint
       \/ \E i \in 1..Len(port) : port[i] \notin Digit
       \/ Len(port) > 0 /\ (Len(port) > 5 \/ DecimalValue(port, Len(port)) > 65535)
    THEN URLFailure
    ELSE URLRecord(scheme, host)

parseAuthority(scheme, special, authority, hostEnd) ==
    parseHostPort(scheme, special, SubSeq(authority, 1, hostEnd),
                  SubSeq(authority, hostEnd + 2, Len(authority)))

\* authority state: up to the first "/", "\", "?" or "#"
parseAfterSlashes(scheme, special, afterSlashes) ==
    LET authority == SubSeq(afterSlashes, 1, FirstIn(afterSlashes, {"/", "\\", "?", "#"}) - 1)
    IN  parseAuthority(scheme, special, authority, FirstIn(authority, {":"}) - 1)

\* a special scheme skips any slashes; another scheme has an authority after "//" only
parseAfterScheme(scheme, special, rest) ==
    IF special
    THEN parseAfterSlashes(scheme, special,
                           SubSeq(rest, FirstNotIn(rest, {"/", "\\"}), Len(rest)))
    ELSE IF Len(rest) >= 2 /\ rest[1] = "/" /\ rest[2] = "/"
    THEN parseAfterSlashes(scheme, special, SubSeq(rest, 3, Len(rest)))
    ELSE URLRecord(scheme, <<>>)

parseSchemeKind(scheme, rest) == parseAfterScheme(scheme, scheme \in SpecialSchemes, rest)

\* scheme start state and scheme state
parseScheme(s, colon) ==
    IF \/ colon > Len(s)
       \/ colon = 1
       \/ s[1] \notin Alpha
       \/ \E i \in 2..(colon - 1) : s[i] \notin Alpha \cup Digit \cup {"+", "-", "."}
    THEN URLFailure
    ELSE parseSchemeKind(toLowerCase(SubSeq(s, 1, colon - 1)), SubSeq(s, colon + 1, Len(s)))

parseStripped(s) == parseScheme(s, FirstIn(s, {":"}))

newURL(input) == parseStripped(SelectSeq(trim(input), NotTabOrNewline))

HttpsProtocol == <<"h", "t", "t", "p", "s", ":">>

Localhost == <<"l", "o", "c", "a", "l", "h", "o", "s", "t">>

\* variant: a localhost hostname is rejected
validateImageUrl_RejectLocalhost(imageUrl) ==
    IF Falsy(imageUrl) \/ Len(trim(imageUrl)) = 0
    THEN Valid
    ELSE LET url == newURL(imageUrl)
         IN  IF ~url.ok
             THEN Invalid(<<"Invalid URL format">>)
             ELSE IF url.protocol # HttpsProtocol
             THEN Invalid(<<"Image URL must be HTTPS only">>)
             ELSE IF ~includes(url.hostname, Localhost)
             THEN Valid
             ELSE Invalid(<<"Image host not allowed">>)

validateImageUrl(imageUrl) ==
    IF Falsy(imageUrl) \/ Len(trim(imageUrl)) = 0
    THEN Valid
    ELSE LET url == newURL(imageUrl)
         IN  IF ~url.ok
             THEN Invalid(<<"Invalid URL format">>)
             ELSE IF url.protocol # HttpsProtocol
             THEN Invalid(<<"Image URL must be HTTPS only">>)
             ELSE IF ~includes(url.hostname, Localhost)
             THEN Valid
             ELSE Valid

\* searchParams.get(name): the value of a key of the query, null when it is absent
get(searchParams, name) == searchParams[name]

\* variant: a missing image becomes "" like the other three keys
getEmbedParams_ImageEmpty(searchParams) ==
    [title  |-> OrElse(get(searchParams, "title"), <<>>),
     desc   |-> OrElse(get(searchParams, "desc"), <<>>),
     footer |-> OrElse(get(searchParams, "footer"), <<>>),
     image  |-> OrElse(get(searchParams, "image"), <<>>)]

getEmbedParams(searchParams) ==
    [title  |-> OrElse(get(searchParams, "title"), <<>>),
     desc   |-> OrElse(get(searchParams, "desc"), <<>>),
     footer |-> OrElse(get(searchParams, "footer"), <<>>),
     image  |-> OrElse(get(searchParams, "image"), Undefined)]

\* the application/x-www-form-urlencoded serializer of URLSearchParams.toString()
PercentCode ==
    "\n" :> <<"%", "0", "A">> @@ "\t" :> <<"%", "0", "9">> @@ "!" :> <<"%", "2", "1">> @@
    "\"" :> <<"%", "2", "2">> @@ "#" :> <<"%", "2", "3">> @@ "&" :> <<"%", "2", "6">> @@
    "'" :> <<"%", "2", "7">> @@ "+" :> <<"%", "2", "B">> @@ "," :> <<"%", "2", "C">> @@
    "/" :> <<"%", "2", "F">> @@ ":" :> <<"%", "3", "A">> @@ ";" :> <<"%", "3", "B">> @@
    "<" :> <<"%", "3", "C">> @@ "=" :> <<"%", "3", "D">> @@ ">" :> <<"%", "3", "E">> @@
    "?" :> <<"%", "3", "F">> @@ "\\" :> <<"%", "5", "C">> @@ "^" :> <<"%", "5", "E">> @@
    Backtick :> <<"%", "6", "0">> @@ "|" :> <<"%", "7", "C">>

urlencodedChar(c) ==
    IF c \in Alpha \cup Digit \cup {"*", "-", ".", "_"} THEN <<c>>
    ELSE IF c = " " THEN <<"+">>
    ELSE PercentCode[c]

urlencoded(text) ==
    FlatMap(urlencodedChar, Alpha \cup Digit \cup {"*", "-", ".", "_"}, text, 1, Len(text))

RECURSIVE JoinPairs(_, _)
JoinPairs(pairs, n) ==
    IF n = 0 THEN <<>>
    ELSE IF n = 1 THEN pairs[1]
    ELSE JoinPairs(pairs, n - 1) \o <<"&">> \o pairs[n]

ParamNames ==
    [title  |-> <<"t", "i", "t", "l", "e", "=">>,
     desc   |-> <<"d", "e", "s", "c", "=">>,
     footer |-> <<"f", "o", "o", "t", "e", "r", "=">>,
     image  |-> <<"i", "m", "a", "g", "e", "=">>]

\* the name=value pairs of the keys whose value passes keep, in the order of the code
SerializePairs(params, keep(_)) ==
    LET pair(k) == IF keep(params[k]) THEN <<ParamNames[k] \o urlencoded(params[k])>> ELSE <<>>
        pairs   == pair("title") \o pair("desc") \o pair("footer") \o pair("image")
    IN  JoinPairs(pairs, Len(pairs))

Truthy(v) == ~Falsy(v)

EmbedPath == <<"/", "e", "m", "b", "e", "d">>

\* variant: a key is set whenever its value is not null, empty or not
buildShareableUrl_KeepEmpty(params) ==
    EmbedPath \o <<"?">> \o SerializePairs(params, LAMBDA v : v # Null)

buildShareableUrl(params) == EmbedPath \o <<"?">> \o SerializePairs(params, Truthy)

----------------------------------------------------------------------------
(* The request: request.nextUrl of a GET /embed whose query holds the keys of
   searchParams that are not null, serialized as buildShareableUrl does *)

Origin == <<"h", "t", "t", "p", "s", ":", "/", "/", "e", "m", "b", "e", "d", ".", "t", "e", "s", "t">>

Present(v) == v # Null

nextUrlSearch(searchParams) ==
    LET query == SerializePairs(searchParams, Present)
    IN  IF \A k \in DOMAIN searchParams : searchParams[k] = Null THEN <<>> ELSE <<"?">> \o query

currentUrlOf(searchParams) == Origin \o EmbedPath \o nextUrlSearch(searchParams)

\* the application/x-www-form-urlencoded parser behind nextUrl.searchParams:
\* position i of an encoded text is the start of a %XX escape, one of its two
\* digits, a "+" or a character that stands for itself
EscapeAt(s, i) ==
    /\ s[i] = "%"
    /\ i + 2 <= Len(s)
    /\ \E c \in DOMAIN PercentCode : PercentCode[c] = SubSeq(s, i, i + 2)

EscapeDigitAt(s, i) ==
    \/ i > 1 /\ EscapeAt(s, i - 1)
    \/ i > 2 /\ EscapeAt(s, i - 2)

urldecodedAt(s, i) ==
    IF EscapeAt(s, i)
    THEN <<CHOOSE c \in DOMAIN PercentCode : PercentCode[c] = SubSeq(s, i, i + 2)>>
    ELSE IF EscapeDigitAt(s, i) THEN <<>>
    ELSE IF s[i] = "+" THEN <<" ">>
    ELSE <<s[i]>>

\* the decoding of positions lo..hi; a range without "%" and "+" that starts
\* outside an escape is copied whole, any other is halved
RECURSIVE urldecodedRange(_, _, _)
urldecodedRange(s, lo, hi) ==
    IF lo > hi THEN <<>>
    ELSE IF /\ \A i \in lo..hi : s[i] \notin {"%", "+"}
            /\ ~EscapeDigitAt(s, lo)
            /\ lo < hi => ~EscapeDigitAt(s, lo + 1)
    THEN SubSeq(s, lo, hi)
    ELSE IF lo = hi THEN urldecodedAt(s, lo)
    ELSE LET mid == (lo + hi) \div 2
         IN  urldecodedRange(s, lo, mid) \o urldecodedRange(s, mid + 1, hi)

urldecoded(text) == urldecodedRange(text, 1, Len(text))

\* the value of the first name=value pair of the query with this name, null
\* when there is none
queryValue(query, name) ==
    LET amps   == {i \in 1..Len(query) : query[i] = "&"}
        starts == {1} \cup {i + 1 : i \in amps}
        hits   == {b \in starts : /\ b + Len(name) - 1 <= Len(query)
                                  /\ SubSeq(query, b, b + Len(name) - 1) = name}
    IN  IF hits = {} THEN Null
        ELSE LET b     == CHOOSE h \in hits : \A g \in hits : h <= g
                 later == {i \in amps : i > b}
                 e     == IF later = {} THEN Len(query)
                          ELSE (CHOOSE i \in later : \A j \in later : i <= j) - 1
             IN  urldecoded(SubSeq(query, b + Len(name), e))

\* new URL(url).searchParams for the four keys of the embed route
searchParamsOf(url) ==
    LET query == SubSeq(url, FirstIn(url, {"?"}) + 1, Len(url))
    IN  [k \in DOMAIN ParamNames |-> queryValue(query, ParamNames[k])]

----------------------------------------------------------------------------
(* The footer-merge route *)

FallbackDescription ==
    <<"A", " ", "s", "h", "a", "r", "e", "a", "b", "l", "e", " ", "e", "m", "b", "e", "d", " ",
      "c", "a", "r", "d", " ", "c", "r", "e", "a", "t", "e", "d", " ", "w", "i", "t", "h", " ",
      "D", "y", "n", "a", "m", "i", "c", " ", "E", "m", "b", "e", "d", " ",
      "G", "e", "n", "e", "r", "a", "t", "o", "r">>

UntitledCard == <<"U", "n", "t", "i", "t", "l", "e", "d", " ", "C", "a", "r", "d">>

\* variant: an invalid title is kept, cut to the limit
titleOf_NoFallback(L, titleRaw) == slice(titleRaw, L.title)

titleOf(L, titleRaw) ==
    IF validateTitle(L, titleRaw).valid THEN slice(titleRaw, L.title) ELSE UntitledCard

footerAllowedOf(L, footerRaw) ==
    IF validateFooter(L, footerRaw).valid THEN slice(footerRaw, L.footer) ELSE <<>>

baseDescOf(L, descRaw) ==
    IF validateDescription(L, descRaw).valid
    THEN slice(descRaw, L.description)
    ELSE FallbackDescription

\* variant: the image is used whether or not it validated
imageUrlOf_NoValidation(imageRaw) == imageRaw

imageUrlOf(imageRaw) == IF validateImageUrl(imageRaw).valid THEN imageRaw ELSE <<>>

footerMarkdownOf(footerAllowed) ==
    IF footerAllowed # <<>>
    THEN <<"\n", "\n", "*", "*">> \o footerAllowed \o <<"*", "*">>
    ELSE <<>>

\* variant: no room is kept for the ellipsis
truncatedBaseOf_NoEllipsisRoom(baseDesc, allowedBase) == trimEnd(slice(baseDesc, allowedBase))

\* variant: the cut base keeps its trailing white space
truncatedBaseOf_NoTrimEnd(baseDesc, allowedBase) == slice(baseDesc, allowedBase - 3)

truncatedBaseOf(baseDesc, allowedBase) == trimEnd(slice(baseDesc, allowedBase - 3))

\* variant: the rebuilt markdown is used without comparing its length with the limit
shrunkFooterDescription_NoLengthCheck(L, baseDesc, footerAllowed) ==
    LET shrunkFooter == trim(slice(footerAllowed, Max(0, L.description - 4)))
    IN  IF shrunkFooter # <<>>
        THEN <<"*", "*">> \o shrunkFooter \o <<"*", "*">>
        ELSE slice(baseDesc, L.description)

\* variant: the rebuilt markdown is used as it is, unchecked and with its newlines
shrunkFooterDescription_Unguarded(L, baseDesc, footerAllowed) ==
    LET shrunkFooter == trim(slice(footerAllowed, Max(0, L.description - 4)))
    IN  IF shrunkFooter # <<>>
        THEN <<"\n", "\n", "*", "*">> \o shrunkFooter \o <<"*", "*">>
        ELSE slice(baseDesc, L.description)

shrunkFooterDescription(L, baseDesc, footerAllowed) ==
    LET allowedFooterContent == Max(0, L.description - 4)
        shrunkFooter == trim(slice(footerAllowed, allowedFooterContent))
        footerMd == IF shrunkFooter # <<>>
                    THEN <<"\n", "\n", "*", "*">> \o shrunkFooter \o <<"*", "*">>
                    ELSE <<>>
        placed == IF Len(trimStart(footerMd)) # 0
                  THEN trimStart(footerMd)
                  ELSE slice(baseDesc, L.description)
    IN  IF Len(footerMd) <= L.description
        THEN IF placed = <<>> THEN slice(baseDesc, L.description) ELSE placed
        ELSE slice(baseDesc, L.description)

\* variant: whenever base and footer do not fit, the footer is shrunk
composeDescription_AlwaysShrink(L, baseDesc, footerAllowed) ==
    LET footerMarkdown == footerMarkdownOf(footerAllowed)
    IN  IF footerMarkdown # <<>>
        THEN IF Len(baseDesc) + Len(footerMarkdown) <= L.description
             THEN baseDesc \o footerMarkdown
             ELSE shrunkFooterDescription(L, baseDesc, footerAllowed)
        ELSE slice(baseDesc, L.description)

\* variant: a description that fills the budget exactly is cut
composeDescription_StrictFit(L, baseDesc, footerAllowed) ==
    LET footerMarkdown == footerMarkdownOf(footerAllowed)
        totalLen       == Len(baseDesc) + Len(footerMarkdown)
        allowedBase    == L.description - Len(footerMarkdown)
    IN  IF footerMarkdown # <<>>
        THEN IF totalLen < L.description
             THEN baseDesc \o footerMarkdown
             ELSE IF allowedBase > 3
             THEN truncatedBaseOf(baseDesc, allowedBase) \o <<".", ".", ".">> \o footerMarkdown
             ELSE shrunkFooterDescription(L, baseDesc, footerAllowed)
        ELSE slice(baseDesc, L.description)

composeDescription(L, baseDesc, footerAllowed) ==
    LET footerMarkdown == footerMarkdownOf(footerAllowed)
        totalLen       == Len(baseDesc) + Len(footerMarkdown)
        allowedBase    == L.description - Len(footerMarkdown)
    IN  IF footerMarkdown # <<>>
        THEN IF totalLen <= L.description
             THEN baseDesc \o footerMarkdown
             ELSE IF allowedBase > 3
             THEN truncatedBaseOf(baseDesc, allowedBase) \o <<".", ".", ".">> \o footerMarkdown
             ELSE shrunkFooterDescription(L, baseDesc, footerAllowed)
        ELSE slice(baseDesc, L.description)

\* variant: the suffix is compared without lowercasing
imageTypeOf_CaseSensitive(escapedImageUrl) ==
    IF escapedImageUrl = <<>> THEN <<>>
    ELSE IF endsWith(escapedImageUrl, <<".", "p", "n", "g">>)
    THEN <<"i", "m", "a", "g", "e", "/", "p", "n", "g">>
    ELSE IF endsWith(escapedImageUrl, <<".", "w", "e", "b", "p">>)
    THEN <<"i", "m", "a", "g", "e", "/", "w", "e", "b", "p">>
    ELSE IF endsWith(escapedImageUrl, <<".", "g", "i", "f">>)
    THEN <<"i", "m", "a", "g", "e", "/", "g", "i", "f">>
    ELSE IF endsWith(escapedImageUrl, <<".", "j", "p", "g">>)
            \/ endsWith(escapedImageUrl, <<".", "j", "p", "e", "g">>)
    THEN <<"i", "m", "a", "g", "e", "/", "j", "p", "e", "g">>
    ELSE <<"i", "m", "a", "g", "e", "/", "*">>

imageTypeOf(escapedImageUrl) ==
    LET lower == toLowerCase(escapedImageUrl)
    IN  IF escapedImageUrl = <<>> THEN <<>>
        ELSE IF endsWith(lower, <<".", "p", "n", "g">>)
        THEN <<"i", "m", "a", "g", "e", "/", "p", "n", "g">>
        ELSE IF endsWith(lower, <<".", "w", "e", "b", "p">>)
        THEN <<"i", "m", "a", "g", "e", "/", "w", "e", "b", "p">>
        ELSE IF endsWith(lower, <<".", "g", "i", "f">>)
        THEN <<"i", "m", "a", "g", "e", "/", "g", "i", "f">>
        ELSE IF endsWith(lower, <<".", "j", "p", "g">>) \/ endsWith(lower, <<".", "j", "p", "e", "g">>)
        THEN <<"i", "m", "a", "g", "e", "/", "j", "p", "e", "g">>
        ELSE <<"i", "m", "a", "g", "e", "/", "*">>

SummaryLargeImage ==
    <<"s", "u", "m", "m", "a", "r", "y", "_", "l", "a", "r", "g", "e", "_", "i", "m", "a", "g", "e">>

Summary == <<"s", "u", "m", "m", "a", "r", "y">>

\* the interpolations of the document template: tag or element |-> emitted text
mergeHtml(escapedTitle, escapedDescription, escapedFooter, escapedImageUrl, escapedUrl, imageType) ==
    LET hasImage == escapedImageUrl # <<>>
        always ==
            [title              |-> escapedTitle,
             description        |-> escapedDescription,
             ogUrl              |-> escapedUrl,
             ogTitle            |-> escapedTitle,
             ogDescription      |-> escapedDescription,
             twitterCard        |-> IF hasImage THEN SummaryLargeImage ELSE Summary,
             twitterTitle       |-> escapedTitle,
             twitterDescription |-> escapedDescription,
             h1                 |-> escapedTitle,
             lead               |-> escapedDescription]
        image ==
            [ogImage          |-> escapedImageUrl,
             ogImageSecureUrl |-> escapedImageUrl,
             ogImageWidth     |-> <<"1", "2", "0", "0">>,
             ogImageHeight    |-> <<"6", "3", "0">>,
             ogImageType      |-> escapeHtml(imageType),
             ogImageAlt       |-> OrElse(escapedFooter, escapedTitle),
             imageSrc         |-> escapedImageUrl,
             twitterImage     |-> escapedImageUrl,
             twitterImageAlt  |-> OrElse(escapedFooter, escapedTitle),
             imgSrc           |-> escapedImageUrl,
             imgAlt           |-> escapedTitle]
        footer == [footerBlock |-> escapedFooter]
    IN  always @@ (IF hasImage THEN image ELSE <<>>)
               @@ (IF escapedFooter # <<>> THEN footer ELSE <<>>)

CommonHeaders ==
    "Content-Type" :> "text/html; charset=utf-8" @@
    "X-Content-Type-Options" :> "nosniff" @@
    "X-Frame-Options" :> "SAMEORIGIN" @@
    "Referrer-Policy" :> "no-referrer-when-downgrade"

mergeRoute(L, searchParams) ==
    LET params      == getEmbedParams(searchParams)
        titleRaw    == trim(OrElse(params.title, <<>>))
        descRaw     == trim(OrElse(params.desc, <<>>))
        footerRaw   == trim(OrElse(params.footer, <<>>))
        imageRaw    == trim(OrElse(params.image, <<>>))
        title       == titleOf(L, titleRaw)
        footerAllowed == footerAllowedOf(L, footerRaw)
        baseDesc    == baseDescOf(L, descRaw)
        description == composeDescription(L, baseDesc, footerAllowed)
        imageUrl    == imageUrlOf(imageRaw)
        escapedImageUrl == escapeHtml(imageUrl)
        imageType   == imageTypeOf(escapedImageUrl)
    IN  [route         |-> "merge",
         currentUrl    |-> currentUrlOf(searchParams),
         params        |-> params,
         status        |-> 200,
         headers       |-> CommonHeaders @@
                           "Cache-Control" :> "public, max-age=300, stale-while-revalidate=86400",
         title         |-> title,
         footerAllowed |-> footerAllowed,
         baseDesc      |-> baseDesc,
         description   |-> description,
         imageUrl      |-> imageUrl,
         imageType     |-> imageType,
         html          |-> mergeHtml(escapeHtml(title), escapeHtml(description),
                                     escapeHtml(footerAllowed), escapedImageUrl,
                                     escapeHtml(currentUrlOf(searchParams)), imageType)]

----------------------------------------------------------------------------
(* The separate-footer route *)

separateHtml(escapedTitle, escapedDescription, escapedFooter, escapedImageUrl, escapedUrl) ==
    LET hasImage == escapedImageUrl # <<>>
        always ==
            [title              |-> escapedTitle,
             description        |-> escapedDescription,
             ogUrl              |-> escapedUrl,
             ogTitle            |-> escapedTitle,
             ogDescription      |-> escapedDescription,
             twitterCard        |-> IF hasImage THEN SummaryLargeImage ELSE Summary,
             twitterTitle       |-> escapedTitle,
             twitterDescription |-> escapedDescription,
             h1                 |-> escapedTitle,
             lead               |-> escapedDescription]
        image ==
            [ogImage      |-> escapedImageUrl,
             twitterImage |-> escapedImageUrl,
             imgSrc       |-> escapedImageUrl,
             imgAlt       |-> escapedTitle]
        footer == [footerBlock |-> escapedFooter]
    IN  always @@ (IF hasImage THEN image ELSE <<>>)
               @@ (IF escapedFooter # <<>> THEN footer ELSE <<>>)

\* variant: the separate-footer route with the policy of the footer-merge route
separateRoute_MergePolicy(L, searchParams) ==
    [mergeRoute(L, searchParams) EXCEPT !.route = "separate"]

separateRoute(L, searchParams) ==
    LET params      == getEmbedParams(searchParams)
        titleRaw    == trim(OrElse(params.title, <<>>))
        descRaw     == trim(OrElse(params.desc, <<>>))
        footerRaw   == trim(OrElse(params.footer, <<>>))
        imageRaw    == trim(OrElse(params.image, <<>>))
        title       == titleOf(L, titleRaw)
        description == baseDescOf(L, descRaw)
        footer      == footerAllowedOf(L, footerRaw)
        imageUrl    == imageUrlOf(imageRaw)
    IN  [route         |-> "separate",
         currentUrl    |-> currentUrlOf(searchParams),
         params        |-> params,
         status        |-> 200,
         headers       |-> CommonHeaders @@
                           "Cache-Control" :> "public, max-age=3600, stale-while-revalidate=86400",
         title         |-> title,
         footerAllowed |-> footer,
         baseDesc      |-> description,
         description   |-> description,
         imageUrl      |-> imageUrl,
         imageType     |-> <<>>,
         html          |-> separateHtml(escapeHtml(title), escapeHtml(description),
                                        escapeHtml(footer), escapeHtml(imageUrl),
                                        escapeHtml(currentUrlOf(searchParams)))]

----------------------------------------------------------------------------
(* The form: its four fields hold what the user typed, "" for a field left
   untouched *)

formField(v) == IF v = Null THEN <<>> ELSE v

newErrorsOf(L, title, description, footer, imageUrl) ==
    LET t   == validateTitle(L, title)
        d   == validateDescription(L, description)
        f   == validateFooter(L, footer)
        img == validateImageUrl(imageUrl)
    IN  (IF ~t.valid THEN [title |-> t.error] ELSE <<>>)
        @@ (IF ~d.valid THEN [description |-> d.error] ELSE <<>>)
        @@ (IF ~f.valid THEN [footer |-> f.error] ELSE <<>>)
        @@ (IF ~img.valid THEN [image |-> img.error] ELSE <<>>)

----------------------------------------------------------------------------
(* Inputs: the four values a user types into the form or a client puts into
   the query, Null for a key that is absent *)

\* lengths within Delta of each limit are tried
Delta == 1

\* white space of up to MaxPad characters around a value
MaxPad == 1

\* a run of up to MaxGap white-space characters where the description is cut
MaxGap == 2

Near(n) == (n - Delta)..(n + Delta)

Pad(s, p) == Rep(" ", p) \o s \o Rep("\n", p)

TitleSpecial == <<"<", "b", ">", "T", "&", "\"", "'", Backtick, "*">>

Titles ==
    {Null, TitleSpecial}
    \cup {Rep(" ", l) \o Rep("a", n) \o Rep("\t", t) :
             l \in 0..MaxPad, t \in 0..MaxPad, n \in {0, 1} \cup Near(LIMITS.title)}
    \cup {Rep(" ", n) : n \in Near(LIMITS.title)}

FooterLens == {0, 1, 10} \cup Near(LIMITS.footer)

FooterSpecial == <<"<", "i", ">", "&", " ", "c", "o">>

Footers ==
    {Null, FooterSpecial} \cup {Pad(Rep("B", n), p) : n \in FooterLens, p \in 0..MaxPad}

\* "A" n1 times, k spaces ending at position n1 + k, then "A" up to length b
Gapped(e, k, b) == Rep("A", e - k) \o Rep(" ", k) \o Rep("A", b - e)

ScriptBold ==
    <<"<", "s", "c", "r", "i", "p", "t", ">", " ", "*", "*", "b", "o", "l", "d", "*", "*">>

\* where the base description is cut to leave room for a footer of f characters
CutFor(f) == LIMITS.description - (f + 6) - 3

MergedFooterLens == {f \in FooterLens : f > 0 /\ f <= LIMITS.footer}

Descs ==
    {Null, <<>>, ScriptBold, Pad(ScriptBold, MaxPad), Rep(" ", MaxPad),
     Rep("<", LIMITS.description), Rep("A", LIMITS.description - 1) \o <<"&">>,
     Rep("A", LIMITS.description - 5)}
    \cup {Rep("A", b) : b \in Near(LIMITS.description)}
    \cup {Gapped(CutFor(f), k, CutFor(f) + 3 + d) :
             f \in MergedFooterLens, k \in 0..MaxGap, d \in (0 - Delta)..Delta}
    \cup {Gapped(CutFor(f), k, LIMITS.description) : f \in MergedFooterLens, k \in 1..MaxGap}

Https == <<"h", "t", "t", "p", "s", ":", "/", "/">>

ExampleHost == <<"e", "x", "a", "m", "p", "l", "e", ".", "c", "o", "m">>

XPng == <<"/", "x", ".", "p", "n", "g">>

HttpsPng == Https \o ExampleHost \o XPng

HttpPng == <<"h", "t", "t", "p", ":", "/", "/">> \o ExampleHost \o XPng

NotAUrl == <<"n", "o", "t", " ", "a", " ", "u", "r", "l">>

Images ==
    {Null, <<>>, HttpsPng, HttpPng, NotAUrl, Https, XPng,
     <<"H", "T", "T", "P", "S", ":", "/", "/">> \o Localhost \o <<"/", "a", ".", "W", "E", "B", "P">>,
     Https \o Localhost \o <<":", "3", "0", "0", "0", "/", "a", ".", "g", "i", "f">>,
     Https \o ExampleHost \o <<":", "9", "9", "9", "9", "9">> \o XPng,
     Https \o ExampleHost \o <<"/", "a", ".", "j", "p", "g", "?", "b", "=", "1", "&", "c", "=", "<", "x", ">">>,
     Https \o ExampleHost \o XPng \o <<"'", "\"", Backtick>>,
     Https \o ExampleHost,
     Https \o <<"e", " ", "c", "o">> \o XPng,
     <<"h", "t", "t", "p", "s", ":">> \o ExampleHost \o <<"/", "x", ".", "j", "p", "e", "g">>,
     <<"1">> \o HttpsPng,
     <<"f", "t", "p", ":", "/", "/">> \o ExampleHost \o XPng,
     <<"d", "a", "t", "a", ":", "x", ".", "p", "n", "g">>,
     Https \o ExampleHost \o <<"/", "a", ".", "j", "p", "g">>,
     Https \o ExampleHost \o <<"/", "a", ".", "J", "p", "E", "g">>,
     Https \o ExampleHost \o <<"/", "a", ".", "p", "n", "g", "&">>}
    \cup {Pad(u, p) : u \in {<<>>, HttpsPng, HttpPng, NotAUrl}, p \in 1..MaxPad}

TitleCore == {Null, TitleSpecial, Rep("a", LIMITS.title + 1)}

DescCore == {Null, ScriptBold, Rep("A", LIMITS.description + 1)}

FooterCore == {Null, Rep("B", 10), Rep("B", LIMITS.footer + 1)}

ImageCore == {Null, HttpsPng, HttpPng}

Request(t, d, f, i) == [title |-> t, desc |-> d, footer |-> f, image |-> i]

Requests ==
    {Request(t, d, f, i) : t \in TitleCore, d \in DescCore, f \in FooterCore, i \in ImageCore}
    \cup {Request(<<"X">>, Null, Null, Null), Request(Null, Null, Null, Null)}
    \cup {Request(t, ScriptBold, Null, Null) : t \in Titles}
    \cup {Request(TitleSpecial, d, f, Null) :
             d \in Descs, f \in {Null} \cup {Rep("B", n) : n \in FooterLens}}
    \cup {Request(TitleSpecial, ScriptBold, f, Null) : f \in Footers}
    \cup {Request(TitleSpecial, ScriptBold, f, i) : f \in {Null, FooterSpecial}, i \in Images}

\* Limits as parameters: description limits up to MaxDescriptionLimit and
\* footer limits up to MaxFooterLimit, small enough for a footer to leave the
\* description no room
MaxDescriptionLimit == 12

MaxFooterLimit == 6

SmallLimits ==
    {[title |-> MaxFooterLimit, description |-> d, footer |-> f] :
        d \in 1..MaxDescriptionLimit, f \in 1..MaxFooterLimit}

SmallDescs == {Null} \cup {Rep("A", n) : n \in {1, 3, MaxDescriptionLimit + 1}}

SmallFooters ==
    {Rep("B", n) : n \in 0..(MaxFooterLimit + 1)}
    \cup {<<"B", " ">> \o Rep("B", n) : n \in 1..(MaxFooterLimit - 2)}

SmallRequests == {Request(<<"T">>, d, f, Null) : d \in SmallDescs, f \in SmallFooters}

----------------------------------------------------------------------------
(* The state machine *)

NoResponse == [route |-> "none"]

\* the fields of the form as the user typed them
formParams ==
    [title  |-> formField(raw.title),
     desc   |-> formField(raw.desc),
     footer |-> formField(raw.footer),
     image  |-> formField(raw.image)]

Init ==
    /\ limits = LIMITS
    /\ raw \in Requests
    /\ errors = <<>>
    /\ formResult = <<>>
    /\ resp = NoResponse
    /\ shareableLink = Null
    /\ clipboard = Null
    /\ copiedLink = FALSE

\* a render of the form page with the typed fields: useMemo computes the link
render ==
    /\ shareableLink' = buildShareableUrl(formParams)
    /\ UNCHANGED <<limits, raw, errors, formResult, resp, clipboard, copiedLink>>

\* the form's validateForm, on the field values as typed
validateForm ==
    LET newErrors == newErrorsOf(limits, formField(raw.title), formField(raw.desc),
                                 formField(raw.footer), formField(raw.image))
    IN  /\ errors' = newErrors
        /\ formResult' = <<DOMAIN newErrors = {}>>
        /\ UNCHANGED <<limits, raw, resp, shareableLink, clipboard, copiedLink>>

\* variant: the link is copied without asking validateForm
handleCopyLink_NoValidation ==
    /\ shareableLink # Null
    /\ \E ok \in BOOLEAN :
          IF ok
          THEN /\ clipboard' = Origin \o shareableLink
               /\ copiedLink' = TRUE
          ELSE UNCHANGED <<clipboard, copiedLink>>
    /\ UNCHANGED <<limits, raw, errors, formResult, resp, shareableLink>>

\* the Copy Link button of the rendered page: nothing is copied when
\* validateForm returns false or when the clipboard write fails
handleCopyLink ==
    LET newErrors == newErrorsOf(limits, formField(raw.title), formField(raw.desc),
                                 formField(raw.footer), formField(raw.image))
        fullUrl   == Origin \o shareableLink
    IN  /\ shareableLink # Null
        /\ errors' = newErrors
        /\ formResult' = <<DOMAIN newErrors = {}>>
        /\ \E ok \in BOOLEAN :
              IF DOMAIN newErrors = {} /\ ok
              THEN /\ clipboard' = fullUrl
                   /\ copiedLink' = TRUE
              ELSE UNCHANGED <<clipboard, copiedLink>>
        /\ UNCHANGED <<limits, raw, resp, shareableLink>>

\* the timer handleCopyLink started: the "copied" mark of the button goes out
copyTimer ==
    /\ copiedLink
    /\ copiedLink' = FALSE
    /\ UNCHANGED <<limits, raw, errors, formResult, resp, shareableLink, clipboard>>

\* GET /embed of the footer-merge route
GET_merge ==
    /\ resp' = mergeRoute(limits, raw)
    /\ UNCHANGED <<limits, raw, errors, formResult, shareableLink, clipboard, copiedLink>>

\* GET /embed of the separate-footer route
GET_separate ==
    /\ resp' = separateRoute(limits, raw)
    /\ UNCHANGED <<limits, raw, errors, formResult, shareableLink, clipboard, copiedLink>>

\* GET of the link that was copied, by either route
GET_link ==
    /\ clipboard # Null
    /\ \/ resp' = mergeRoute(limits, searchParamsOf(clipboard))
       \/ resp' = separateRoute(limits, searchParamsOf(clipboard))
    /\ UNCHANGED <<limits, raw, errors, formResult, shareableLink, clipboard, copiedLink>>

\* requests of any client to the two routes, and the form's validation
Next == validateForm \/ GET_merge \/ GET_separate

Spec == Init /\ [][Next]_vars

\* a session of the form page: the link is rendered, copied and then requested
NextForm == render \/ handleCopyLink \/ copyTimer \/ GET_link

SpecForm == Init /\ [][NextForm]_vars

\* the footer-merge route under other Limits than the shipped ones
InitLimits ==
    /\ limits \in SmallLimits
    /\ raw \in SmallRequests
    /\ errors = <<>>
    /\ formResult = <<>>
    /\ resp = NoResponse
    /\ shareableLink = Null
    /\ clipboard = Null
    /\ copiedLink = FALSE

NextLimits == GET_merge

SpecLimits == InitLimits /\ [][NextLimits]_vars

----------------------------------------------------------------------------
(* Properties *)

IsBlank(s) == \A i \in 1..Len(s) : s[i] \in WhiteSpace

Count(s, set) == Cardinality({i \in 1..Len(s) : s[i] \in set})

Merged == resp.route = "merge"

Responded == resp.route # "none"

Validated == formResult # <<>>

FooterMarkdown == <<"\n", "\n", "*", "*">> \o resp.footerAllowed \o <<"*", "*">>

\* C1: in the footer-merge route the composed description, before escaping,
\* is never longer than Limits.description, whatever the four query values are.
C1_DescriptionWithinLimit ==
    Merged => Len(resp.description) <= LIMITS.description

\* a base description that had to be cut for its footer fills the budget exactly
C1_Witness ==
    /\ Merged
    /\ resp.footerAllowed # <<>>
    /\ Len(resp.baseDesc) + Len(FooterMarkdown) > LIMITS.description
    /\ Len(resp.description) = LIMITS.description

\* C2 as claimed: the escaped description that the template interpolates is
\* never longer than Limits.description.
C2_EscapedWithinLimit ==
    Merged => Len(resp.html.description) <= LIMITS.description

\* C2 as amended: the escaped description is as long as the composed one plus
\* 3 for each "<" or ">", 4 for each "&" and 5 for each quote or grave accent;
\* so it is within Limits.description when the composed description holds none
\* of these characters and within 6 * Limits.description in every case.
C2_EscapedLength ==
    Merged =>
        LET d == resp.description
            e == resp.html.description
        IN  /\ Len(e) = Len(d) + 3 * Count(d, {"<", ">"}) + 4 * Count(d, {"&"})
                        + 5 * Count(d, {"\"", "'", Backtick})
            /\ Count(d, {"<", ">", "&", "\"", "'", Backtick}) = 0 => Len(e) <= LIMITS.description
            /\ Len(e) <= 6 * LIMITS.description

\* an escaped description longer than the limit
C2_Witness ==
    /\ Merged
    /\ Len(resp.description) <= LIMITS.description
    /\ Len(resp.html.description) > LIMITS.description

\* C3: with a non-empty footer whose markdown fits after the base description,
\* the description is the base followed by "\n\n**" + footer + "**", nothing
\* removed; with an empty footer it is the base description.
C3_Concatenation ==
    Merged =>
        /\ (resp.footerAllowed # <<>>
              /\ Len(resp.baseDesc) + Len(FooterMarkdown) <= LIMITS.description)
           => resp.description = resp.baseDesc \o FooterMarkdown
        /\ resp.footerAllowed = <<>> => resp.description = resp.baseDesc

\* base and footer markdown together are exactly Limits.description long
C3_Witness ==
    /\ Merged
    /\ resp.footerAllowed # <<>>
    /\ Len(resp.baseDesc) + Len(FooterMarkdown) = LIMITS.description
    /\ resp.description = resp.baseDesc \o FooterMarkdown

\* C4: when base and footer markdown do not fit and allowedBase > 3, the
\* description is the first allowedBase - 3 characters of the base without their
\* trailing white space, then "...", then the whole footer markdown; it is at
\* most Limits.description long, and exactly that long when the cut base does
\* not end in white space (995 "A" and a footer of 10 characters give 1000
\* characters of which the first 979 are "A").
C4_Truncation ==
    (/\ Merged
     /\ resp.footerAllowed # <<>>
     /\ Len(resp.baseDesc) + Len(FooterMarkdown) > LIMITS.description
     /\ LIMITS.description - Len(FooterMarkdown) > 3)
    =>
        LET base == resp.baseDesc
            cut  == LIMITS.description - Len(FooterMarkdown) - 3
            kept == Len(resp.description) - 3 - Len(FooterMarkdown)
        IN  /\ kept \in 0..cut
            /\ resp.description = SubSeq(base, 1, kept) \o <<".", ".", ".">> \o FooterMarkdown
            /\ kept > 0 => base[kept] \notin WhiteSpace
            /\ \A i \in (kept + 1)..cut : base[i] \in WhiteSpace
            /\ Len(resp.description) <= LIMITS.description
            /\ base[cut] \notin WhiteSpace => Len(resp.description) = LIMITS.description
            /\ (base = Rep("A", LIMITS.description - 5) /\ Len(resp.footerAllowed) = 10)
               => /\ Len(resp.description) = LIMITS.description
                  /\ \A i \in 1..979 : resp.description[i] = "A"

\* a cut that ends in white space, which is stripped
C4_Witness ==
    /\ Merged
    /\ resp.footerAllowed # <<>>
    /\ Len(resp.baseDesc) + Len(FooterMarkdown) > LIMITS.description
    /\ resp.baseDesc[LIMITS.description - Len(FooterMarkdown) - 3] \in WhiteSpace
    /\ Len(resp.description) < LIMITS.description
    /\ endsWith(resp.description, <<".", ".", ".">> \o FooterMarkdown)

\* C5: validateTitle reports the empty-field error for a title that is empty
\* after trimming, else the too-long error for a title longer than Limits.title,
\* else no error; 200 characters are valid and 201 are not; the other fields
\* play no part.
C5_ValidateTitle ==
    Validated =>
        LET title == formField(raw.title)
        IN  /\ IF IsBlank(title)
               THEN "title" \in DOMAIN errors /\ errors.title = <<"Title is required">>
               ELSE IF Len(title) > LIMITS.title
               THEN /\ "title" \in DOMAIN errors
                    /\ errors.title = <<"Title must be", LIMITS.title, "characters or less">>
               ELSE "title" \notin DOMAIN errors
            /\ title = Rep("a", 200) => "title" \notin DOMAIN errors
            /\ title = Rep("a", 201) => "title" \in DOMAIN errors

\* a title of white space only, longer than the limit, is reported as missing
C5_Witness ==
    /\ Validated
    /\ raw.title # Null
    /\ Len(raw.title) > LIMITS.title
    /\ IsBlank(raw.title)
    /\ errors.title = <<"Title is required">>

\* C6: validateDescription follows the same rule with Limits.description: 1000
\* characters are valid, 1001 are not.
C6_ValidateDescription ==
    Validated =>
        LET desc == formField(raw.desc)
        IN  /\ IF IsBlank(desc)
               THEN /\ "description" \in DOMAIN errors
                    /\ errors.description = <<"Description is required">>
               ELSE IF Len(desc) > LIMITS.description
               THEN /\ "description" \in DOMAIN errors
                    /\ errors.description
                         = <<"Description must be", LIMITS.description, "characters or less">>
               ELSE "description" \notin DOMAIN errors
            /\ desc = Rep("A", 1000) => "description" \notin DOMAIN errors
            /\ desc = Rep("A", 1001) => "description" \in DOMAIN errors

\* a description of exactly Limits.description characters passes
C6_Witness ==
    /\ Validated
    /\ raw.desc # Null
    /\ Len(raw.desc) = LIMITS.description
    /\ "description" \notin DOMAIN errors

\* C7: validateFooter accepts the empty footer and every footer of at most
\* Limits.footer characters, and reports too long, never a missing field, exactly
\* for the longer ones.
C7_ValidateFooter ==
    Validated =>
        LET footer == formField(raw.footer)
        IN  /\ "footer" \in DOMAIN errors <=> Len(footer) > LIMITS.footer
            /\ "footer" \in DOMAIN errors
               => errors.footer = <<"Footer must be", LIMITS.footer, "characters or less">>
            /\ footer = <<>> => "footer" \notin DOMAIN errors

\* an empty footer passes beside fields that fail
C7_Witness ==
    /\ Validated
    /\ formField(raw.footer) = <<>>
    /\ "footer" \notin DOMAIN errors
    /\ formResult = <<FALSE>>

\* C8: validateImageUrl accepts an empty, absent or blank value; reports an
\* invalid format for a value that is no absolute URL, a disallowed scheme for
\* a URL that is not https, and accepts every https URL, a localhost one like
\* any other; it always returns a verdict.
C8_ValidateImageUrl ==
    Validated =>
        LET image == formField(raw.image)
        IN  /\ IF IsBlank(image)
               THEN "image" \notin DOMAIN errors
               ELSE IF ~newURL(image).ok
               THEN "image" \in DOMAIN errors /\ errors.image = <<"Invalid URL format">>
               ELSE IF newURL(image).protocol # HttpsProtocol
               THEN /\ "image" \in DOMAIN errors
                    /\ errors.image = <<"Image URL must be HTTPS only">>
               ELSE "image" \notin DOMAIN errors
            /\ image = HttpPng => "image" \in DOMAIN errors
            /\ image = HttpsPng => "image" \notin DOMAIN errors
            /\ image = NotAUrl => "image" \in DOMAIN errors
            /\ (Len(image) >= Len(Https) + Len(Localhost) /\ SubSeq(image, 1, Len(Https) + Len(Localhost)) = Https \o Localhost)
               => "image" \notin DOMAIN errors

\* an https URL on localhost passes
C8_Witness ==
    /\ Validated
    /\ raw.image = Https \o Localhost \o <<":", "3", "0", "0", "0", "/", "a", ".", "g", "i", "f">>
    /\ "image" \notin DOMAIN errors

\* C9: every request is answered with status 200, and each field that fails
\* validation is replaced on its own: the title by "Untitled Card" (a valid
\* one is the trimmed title, at most Limits.title long), the description by
\* the fallback sentence, the footer and the image by the empty string.
C9_Fallbacks ==
    Responded =>
        LET t == trim(formField(raw.title))
            d == trim(formField(raw.desc))
            f == trim(formField(raw.footer))
            i == trim(formField(raw.image))
            imageOk == i = <<>> \/ (newURL(i).ok /\ newURL(i).protocol = HttpsProtocol)
        IN  /\ resp.status = 200
            /\ resp.title = IF t # <<>> /\ Len(t) <= LIMITS.title THEN t ELSE UntitledCard
            /\ Len(resp.title) <= LIMITS.title
            /\ resp.baseDesc = IF d # <<>> /\ Len(d) <= LIMITS.description
                               THEN d ELSE FallbackDescription
            /\ resp.footerAllowed = IF Len(f) <= LIMITS.footer THEN f ELSE <<>>
            /\ resp.imageUrl = IF imageOk THEN i ELSE <<>>

\* all four fields fail at once and each gets its fallback
C9_Witness ==
    /\ Responded
    /\ resp.status = 200
    /\ raw.title = Null
    /\ raw.desc = Rep("A", LIMITS.description + 1)
    /\ raw.footer = Rep("B", LIMITS.footer + 1)
    /\ raw.image = HttpPng
    /\ resp.title = UntitledCard
    /\ resp.baseDesc = FallbackDescription
    /\ resp.footerAllowed = <<>>
    /\ resp.imageUrl = <<>>

ScriptTag == <<"<", "s", "c", "r", "i", "p", "t", ">">>

EscapedScriptTag == <<"&", "l", "t", ";", "s", "c", "r", "i", "p", "t", "&", "g", "t", ";">>

BoldText == <<"*", "*", "b", "o", "l", "d", "*", "*">>

\* C10: no interpolated value of the document holds a raw "<" or ">"; a
\* description with <script> is emitted with &lt;script&gt;, and asterisks are
\* emitted as they are, **bold** staying **bold**.
C10_Escaped ==
    Responded =>
        /\ \A k \in DOMAIN resp.html : Count(resp.html[k], {"<", ">"}) = 0
        /\ includes(resp.description, ScriptTag)
           => includes(resp.html.ogDescription, EscapedScriptTag)
        /\ includes(resp.description, BoldText) => includes(resp.html.ogDescription, BoldText)
        /\ Count(resp.html.ogDescription, {"*"}) = Count(resp.description, {"*"})
        /\ Count(resp.html.ogTitle, {"*"}) = Count(resp.title, {"*"})

\* a description with <script> and **bold**, a title and an image URL with "<"
C10_Witness ==
    /\ Merged
    /\ includes(resp.description, ScriptTag)
    /\ includes(resp.html.ogDescription, EscapedScriptTag)
    /\ includes(resp.html.ogDescription, BoldText)
    /\ Count(resp.title, {"<"}) > 0
    /\ Count(resp.imageUrl, {"<"}) > 0
    /\ "ogImage" \in DOMAIN resp.html


ImageTagSlots ==
    {"ogImage", "ogImageSecureUrl", "ogImageWidth", "ogImageHeight", "ogImageType",
     "ogImageAlt", "imageSrc", "twitterImage", "twitterImageAlt", "imgSrc", "imgAlt"}

ImageUrlSlots == {"ogImage", "ogImageSecureUrl", "imageSrc", "twitterImage", "imgSrc"}

\* the trimmed image value of the request parses as a URL whose scheme is https
ImageValidated ==
    LET image == trim(formField(raw.image))
    IN  /\ image # <<>>
        /\ newURL(image) # URLFailure
        /\ newURL(image).protocol = HttpsProtocol

\* C11: in the footer-merge route an image URL reaches the output only if it
\* validated. When the image value is empty, unparseable or not https, no
\* image tag and no <img> is emitted and twitter:card is "summary"; when it
\* validated, every image tag is emitted, those that carry the URL with that
\* URL (escaped), and twitter:card is "summary_large_image". The image tags
\* are present exactly when twitter:card is "summary_large_image".
C11_ImageOnlyIfValidated ==
    Merged =>
        /\ ~ImageValidated =>
              /\ resp.imageUrl = <<>>
              /\ DOMAIN resp.html \cap ImageTagSlots = {}
              /\ resp.html.twitterCard = Summary
        /\ ImageValidated =>
              /\ resp.imageUrl = trim(formField(raw.image))
              /\ ImageTagSlots \subseteq DOMAIN resp.html
              /\ \A k \in ImageUrlSlots : resp.html[k] = escapeHtml(resp.imageUrl)
              /\ resp.html.twitterCard = SummaryLargeImage
        /\ (DOMAIN resp.html \cap ImageTagSlots # {})
           <=> resp.html.twitterCard = SummaryLargeImage

\* an https image is emitted in every image tag of a large-image card
C11_Witness ==
    /\ Merged
    /\ ImageValidated
    /\ ImageTagSlots \subseteq DOMAIN resp.html
    /\ resp.html.ogImage = escapeHtml(trim(raw.image))
    /\ resp.html.twitterCard = SummaryLargeImage

ImageSuffixes ==
    {<<<<".", "p", "n", "g">>, <<"p", "n", "g">>>>,
     <<<<".", "w", "e", "b", "p">>, <<"w", "e", "b", "p">>>>,
     <<<<".", "g", "i", "f">>, <<"g", "i", "f">>>>,
     <<<<".", "j", "p", "g">>, <<"j", "p", "e", "g">>>>,
     <<<<".", "j", "p", "e", "g">>, <<"j", "p", "e", "g">>>>}

ImageSlash == <<"i", "m", "a", "g", "e", "/">>

\* C12: for a present image the MIME hint depends on the lowercased suffix of
\* the raw image URL only: .png, .webp, .gif give image/png, image/webp,
\* image/gif, .jpg and .jpeg give image/jpeg, in any letter case, and any
\* other suffix gives image/*. The hint the code computes from the escaped
\* URL is the one the raw URL gives. With no image the hint is empty.
C12_ImageType ==
    Merged =>
        LET lower   == toLowerCase(resp.imageUrl)
            matches == {p \in ImageSuffixes : endsWith(lower, p[1])}
        IN  /\ resp.imageUrl = <<>> => resp.imageType = <<>>
            /\ resp.imageUrl # <<>> /\ matches = {}
               => resp.imageType = ImageSlash \o <<"*">>
            /\ \A p \in matches : resp.imageType = ImageSlash \o p[2]
            /\ "ogImageType" \in DOMAIN resp.html
               => resp.html.ogImageType = resp.imageType

\* an image URL ending in .WEBP gets image/webp
C12_Witness ==
    /\ Merged
    /\ endsWith(resp.imageUrl, <<".", "W", "E", "B", "P">>)
    /\ resp.imageType = ImageSlash \o <<"w", "e", "b", "p">>


Rendered == shareableLink # Null

ParamOrder == <<"title", "desc", "footer", "image">>

\* the query of the rendered link, after "/embed?"
LinkQuery == SubSeq(shareableLink, Len(EmbedPath) + 2, Len(shareableLink))

\* where the pair of a name starts in a query, 0 when it has none
PairStart(query, name) ==
    LET starts == {1} \cup {i + 1 : i \in {j \in 1..Len(query) : query[j] = "&"}}
        hits   == {b \in starts : /\ b + Len(name) - 1 <= Len(query)
                                  /\ SubSeq(query, b, b + Len(name) - 1) = name}
    IN  IF hits = {} THEN 0 ELSE CHOOSE h \in hits : \A g \in hits : h <= g

\* C13: buildShareableUrl returns "/embed?" followed by a query string that
\* holds exactly the keys among title, desc, footer, image whose value is
\* truthy, each with its value, in that order, and no key whose value is
\* empty; for the title "X" alone it returns exactly "/embed?title=X".
C13_ShareableUrl ==
    Rendered =>
        LET kept == {k \in DOMAIN formParams : formParams[k] # <<>>}
        IN  /\ SubSeq(shareableLink, 1, Len(EmbedPath) + 1) = EmbedPath \o <<"?">>
            /\ \A k \in DOMAIN formParams :
                  queryValue(LinkQuery, ParamNames[k])
                      = IF k \in kept THEN formParams[k] ELSE Null
            /\ Count(LinkQuery, {"="}) = Cardinality(kept)
            /\ Count(LinkQuery, {"&"}) = Max(Cardinality(kept) - 1, 0)
            /\ \A i, j \in 1..4 :
                  i < j /\ ParamOrder[i] \in kept /\ ParamOrder[j] \in kept
                  => PairStart(LinkQuery, ParamNames[ParamOrder[i]])
                         < PairStart(LinkQuery, ParamNames[ParamOrder[j]])
            /\ formParams = [title |-> <<"X">>, desc |-> <<>>, footer |-> <<>>, image |-> <<>>]
               => shareableLink = EmbedPath \o <<"?", "t", "i", "t", "l", "e", "=", "X">>

\* the link of a form whose only filled field is the title "X"
C13_Witness ==
    /\ Rendered
    /\ raw.title = <<"X">>
    /\ formParams.desc = <<>>
    /\ shareableLink = EmbedPath \o <<"?", "t", "i", "t", "l", "e", "=", "X">>

\* a link with title, description and image but no footer
C13_WitnessOmitted ==
    /\ Rendered
    /\ formParams.footer = <<>>
    /\ formParams.image # <<>>
    /\ PairStart(LinkQuery, ParamNames.footer) = 0
    /\ PairStart(LinkQuery, ParamNames.image) > PairStart(LinkQuery, ParamNames.desc)


\* C14: getEmbedParams gives a record with all four keys for any query:
\* title, desc and footer are the value of the key when it is present and
\* not empty and "" otherwise; image is the value when present and not empty
\* and undefined, never "", otherwise.
C14_EmbedParams ==
    Responded =>
        /\ DOMAIN resp.params = {"title", "desc", "footer", "image"}
        /\ \A k \in {"title", "desc", "footer"} :
              resp.params[k] = IF raw[k] \notin {Null, <<>>} THEN raw[k] ELSE <<>>
        /\ resp.params.image = IF raw.image \notin {Null, <<>>} THEN raw.image ELSE Undefined
        /\ resp.params.image # <<>>

\* a query with image= and no value, and one without the desc key
C14_Witness ==
    /\ Responded
    /\ raw.image = <<>>
    /\ resp.params.image = Undefined
    /\ raw.desc # Null
    /\ resp.params.desc = raw.desc
    /\ raw.footer = Null
    /\ resp.params.footer = <<>>


Separate == resp.route = "separate"

\* the trimmed description of the request passes validateDescription
DescriptionValid ==
    LET d == trim(formField(raw.desc))
    IN  d # <<>> /\ Len(d) <= LIMITS.description

\* C15: the footer-merge route emits a description composed with the footer
\* markdown and Cache-Control max-age=300; the separate-footer route never
\* merges the footer (its description is the valid trimmed description or the
\* fallback sentence whatever the footer is), emits the footer only as a
\* block of its own and sends max-age=3600. Both send the same Content-Type,
\* X-Content-Type-Options, X-Frame-Options and Referrer-Policy, and
\* stale-while-revalidate=86400.
C15_RoutePolicies ==
    Responded =>
        /\ resp.headers["Content-Type"] = "text/html; charset=utf-8"
        /\ resp.headers["X-Content-Type-Options"] = "nosniff"
        /\ resp.headers["X-Frame-Options"] = "SAMEORIGIN"
        /\ resp.headers["Referrer-Policy"] = "no-referrer-when-downgrade"
        /\ Merged =>
              /\ resp.headers["Cache-Control"]
                     = "public, max-age=300, stale-while-revalidate=86400"
              /\ resp.footerAllowed # <<>> => endsWith(resp.description, FooterMarkdown)
              /\ resp.footerAllowed = <<>> => resp.description = resp.baseDesc
              /\ resp.html.ogDescription = escapeHtml(resp.description)
        /\ Separate =>
              /\ resp.headers["Cache-Control"]
                     = "public, max-age=3600, stale-while-revalidate=86400"
              /\ resp.description = IF DescriptionValid THEN trim(formField(raw.desc))
                                    ELSE FallbackDescription
              /\ resp.html.ogDescription = escapeHtml(resp.description)
              /\ resp.html.lead = escapeHtml(resp.description)
              /\ "footerBlock" \in DOMAIN resp.html <=> resp.footerAllowed # <<>>
              /\ resp.footerAllowed # <<>>
                 => resp.html.footerBlock = escapeHtml(resp.footerAllowed)

\* the separate-footer route answers a request with a valid footer: the
\* description is the trimmed description alone, the footer a block of its own
C15_Witness ==
    /\ Separate
    /\ resp.footerAllowed # <<>>
    /\ DescriptionValid
    /\ resp.description = trim(raw.desc)
    /\ ~endsWith(resp.description, FooterMarkdown)
    /\ "footerBlock" \in DOMAIN resp.html
    /\ resp.headers["Cache-Control"] = "public, max-age=3600, stale-while-revalidate=86400"

\* the footer-merge route answers the same kind of request with the footer merged
C15_WitnessMerged ==
    /\ Merged
    /\ resp.footerAllowed # <<>>
    /\ DescriptionValid
    /\ resp.description = trim(raw.desc) \o FooterMarkdown
    /\ resp.headers["Cache-Control"] = "public, max-age=300, stale-while-revalidate=86400"


\* the request was answered by the footer-shrink branch of the merge: there
\* is a footer, base and footer markdown exceed the limit, and the footer
\* markdown leaves the base at most 3 characters
Shrunk ==
    /\ Merged
    /\ resp.footerAllowed # <<>>
    /\ Len(resp.baseDesc) + Len(FooterMarkdown) > limits.description
    /\ limits.description - Len(FooterMarkdown) <= 3

\* the footer content cut to Limits.description - 4 characters, and the
\* markdown rebuilt from it
CutFooter == trim(slice(resp.footerAllowed, Max(0, limits.description - 4)))

RebuiltMarkdown ==
    IF CutFooter # <<>> THEN <<"\n", "\n", "*", "*">> \o CutFooter \o <<"*", "*">> ELSE <<>>

\* C16 as stated: in the footer-shrink branch the footer content is cut to
\* at most Limits.description - 4 characters and the markdown rebuilt; if the
\* rebuilt markdown with leading white space stripped is non-empty it alone is
\* the description, otherwise the description is the base truncated to
\* Limits.description.
C16_ShrunkFooterAlone ==
    Shrunk =>
        /\ Len(CutFooter) <= Max(0, limits.description - 4)
        /\ resp.description = IF trimStart(RebuiltMarkdown) # <<>>
                              THEN trimStart(RebuiltMarkdown)
                              ELSE slice(resp.baseDesc, limits.description)

\* C16 amended: in the footer-shrink branch the footer content is cut to at
\* most Limits.description - 4 characters and the markdown rebuilt; if the
\* rebuilt markdown is non-empty and not longer than Limits.description, it
\* alone, with its leading newlines stripped, is the description; if it is
\* empty or longer than Limits.description, the description is the base
\* truncated to Limits.description and the footer is discarded.
C16_ShrunkFooterIfFits ==
    Shrunk =>
        /\ Len(CutFooter) <= Max(0, limits.description - 4)
        /\ resp.description = IF RebuiltMarkdown # <<>>
                                 /\ Len(RebuiltMarkdown) <= limits.description
                              THEN trimStart(RebuiltMarkdown)
                              ELSE slice(resp.baseDesc, limits.description)

\* the rebuilt markdown of a cut footer is longer than the limit and the
\* base description is emitted without any footer
C16_Witness ==
    /\ Shrunk
    /\ Len(CutFooter) < Len(resp.footerAllowed)
    /\ Len(RebuiltMarkdown) > limits.description
    /\ resp.description = slice(resp.baseDesc, limits.description)

\* the rebuilt markdown fits and is the whole description
C16_WitnessFooterAlone ==
    /\ Shrunk
    /\ RebuiltMarkdown # <<>>
    /\ resp.description = <<"*", "*">> \o CutFooter \o <<"*", "*">>

\* C17 as stated: there are Limits and inputs, among all those tried and the
\* ones at hand, that reach the footer-shrink branch and whose composed
\* description is longer than Limits.description.
C17_ShrinkCanExceed ==
    \E L \in SmallLimits \cup {limits}, r \in SmallRequests \cup {raw} :
        LET out == mergeRoute(L, r)
            md  == footerMarkdownOf(out.footerAllowed)
        IN  /\ md # <<>>
            /\ Len(out.baseDesc) + Len(md) > L.description
            /\ L.description - Len(md) <= 3
            /\ Len(out.description) > L.description

\* C17 amended: whatever the Limits are, the footer-shrink branch never
\* gives a description longer than Limits.description. The cut footer may be
\* up to Limits.description - 4 long, so that its rebuilt markdown of 6 more
\* characters can exceed the limit by up to 2; it is then not used, and the
\* description is the base truncated to the limit. A rebuilt markdown that
\* is used loses its two newlines and is at most Limits.description - 2 long.
C17_ShrinkWithinLimit ==
    Shrunk =>
        /\ Len(resp.description) <= limits.description
        /\ Len(RebuiltMarkdown) <= limits.description + 2
        /\ Len(RebuiltMarkdown) > limits.description
           => resp.description = slice(resp.baseDesc, limits.description)
        /\ resp.description # slice(resp.baseDesc, limits.description)
           => Len(resp.description) <= limits.description - 2

\* the budget of 4 was too small: the rebuilt markdown is 2 longer than the
\* limit, and the description emitted is within it
C17_Witness ==
    /\ Shrunk
    /\ Len(RebuiltMarkdown) = limits.description + 2
    /\ Len(resp.description) <= limits.description
    /\ Len(resp.baseDesc) > limits.description


\* the trimmed footer of the request, when it is non-empty and valid
TrimmedFooter == trim(formField(raw.footer))

FooterValid == TrimmedFooter # <<>> /\ Len(TrimmedFooter) <= LIMITS.footer

\* C18: with the shipped Limits the footer-shrink branch is never reached:
\* for every request whose trimmed footer is non-empty and valid, allowedBase
\* is at least 794, and the composed description ends with the complete
\* footer markdown "\n\n**" + footer + "**"; only the base is ever cut.
C18_FooterNeverShrunk ==
    Merged /\ FooterValid =>
        LET markdown    == <<"\n", "\n", "*", "*">> \o TrimmedFooter \o <<"*", "*">>
            allowedBase == LIMITS.description - Len(markdown)
            head        == slice(resp.description, Len(resp.description) - Len(markdown))
        IN  /\ limits = LIMITS
            /\ resp.footerAllowed = TrimmedFooter
            /\ allowedBase >= 794
            /\ ~Shrunk
            /\ endsWith(resp.description, markdown)
            /\ \/ head = resp.baseDesc
               \/ /\ endsWith(head, <<".", ".", ".">>)
                  /\ Len(head) <= allowedBase
                  /\ slice(head, Len(head) - 3) = slice(resp.baseDesc, Len(head) - 3)

\* a footer of 200 characters leaves the base 794: the base is cut and the
\* whole footer kept
C18_Witness ==
    /\ Merged
    /\ FooterValid
    /\ Len(TrimmedFooter) = LIMITS.footer
    /\ Len(resp.baseDesc) > 794
    /\ Len(resp.description) = LIMITS.description
    /\ endsWith(resp.description, <<"*", "*">> \o TrimmedFooter \o <<"*", "*">>)


Copied == clipboard # Null

\* C19: the form validates the values as typed, the server the trimmed values
\* of the link. A link is copied only when none of the four validators
\* reports the typed value invalid; and whenever a link was copied, the embed
\* route that handles it finds all four trimmed values valid and substitutes
\* no fallback: its title is the trimmed title, the description it starts
\* from the trimmed description, its footer and image the trimmed footer and
\* image.
C19_FormAgreesWithServer ==
    /\ Copied =>
          /\ formResult = <<TRUE>>
          /\ DOMAIN errors = {}
          /\ validateTitle(LIMITS, formParams.title).valid
          /\ validateDescription(LIMITS, formParams.desc).valid
          /\ validateFooter(LIMITS, formParams.footer).valid
          /\ validateImageUrl(formParams.image).valid
          /\ clipboard = Origin \o shareableLink
    /\ Copied /\ Responded =>
          /\ resp.currentUrl = clipboard
          /\ \A k \in DOMAIN formParams :
                OrElse(resp.params[k], <<>>) = formParams[k]
          /\ validateTitle(LIMITS, trim(formParams.title)).valid
          /\ validateDescription(LIMITS, trim(formParams.desc)).valid
          /\ validateFooter(LIMITS, trim(formParams.footer)).valid
          /\ validateImageUrl(trim(formParams.image)).valid
          /\ resp.title = trim(formParams.title)
          /\ resp.baseDesc = trim(formParams.desc)
          /\ resp.footerAllowed = trim(formParams.footer)
          /\ resp.imageUrl = trim(formParams.image)
          /\ resp.html.ogTitle = escapeHtml(trim(formParams.title))
          /\ Separate => resp.html.ogDescription = escapeHtml(trim(formParams.desc))
          /\ Merged /\ resp.footerAllowed = <<>>
             => resp.html.ogDescription = escapeHtml(trim(formParams.desc))

\* a form with a padded title and a padded image was copied and its link
\* requested: the server renders the trimmed values
C19_Witness ==
    /\ Copied
    /\ Responded
    /\ formParams.title # trim(formParams.title)
    /\ resp.title = trim(formParams.title)
    /\ resp.baseDesc = trim(formParams.desc)

\* a form with an image of white space only is valid; the link carries the
\* image key and the server treats the image as absent
C19_WitnessBlankImage ==
    /\ Copied
    /\ Responded
    /\ formParams.image # <<>>
    /\ IsBlank(formParams.image)
    /\ resp.imageUrl = <<>>

====
